---- MODULE Spec2Model ----
(***************************************************************************)
(* Temporary-workspace housekeeping of Photon (src-tauri/src/main.rs):     *)
(* temporary_workspace_dir, compute_dir_size, cleanup_temporary_files,     *)
(* available_disk_space and the housekeeping command that sequences them.  *)
(*                                                                         *)
(* Byte quantities are u64 in the program.  TLC's integers are 32 bits     *)
(* wide, so u64::MAX is represented by U64Max, a value above the low-space *)
(* threshold; every addition on bytes goes through saturating_add, which   *)
(* clamps at U64Max exactly as u64::saturating_add clamps at u64::MAX.     *)
(* Times are seconds relative to UNIX_EPOCH; SystemTime is a bounded type, *)
(* its least representable value is SystemTimeMin.                         *)
(***************************************************************************)
EXTENDS Integers, Sequences, FiniteSets

\* ------------------------------------------------------------------ bounds

\* Stand-in for u64::MAX (the value saturating arithmetic clamps at).
U64Max == 500000000
\* Distance of the least representable SystemTime below UNIX_EPOCH.
TimeSpan == 100000
\* Number of distinct names a direct child of the workspace can have.
MaxEntries == 2
\* Longest path (in components) and longest volume list of the disk probe runs.
MaxPathLen == 2
MaxDisks == 2

\* --------------------------------------------------------------- constants

MIN_DISK_SPACE_BYTES == 200 * 1024 * 1024
TEMP_RETENTION_HOURS == 24
\* Duration::from_secs(TEMP_RETENTION_HOURS * 3600)
Retention == TEMP_RETENTION_HOURS * 3600
UNIX_EPOCH == 0
SystemTimeMin == UNIX_EPOCH - TimeSpan


\* ----------------------------------------------------------- result values

Ok(v) == [ok |-> TRUE, val |-> v]
Err(e) == [ok |-> FALSE, val |-> e]

\* metadata.modified(): Ok(time), or Err when the platform reports none.
Modified(t) == [ok |-> TRUE, val |-> t]
NoTime == [ok |-> FALSE, val |-> 0]

\* u64::saturating_add
saturating_add(a, b) == IF a > U64Max - b THEN U64Max ELSE a + b

\* The subtraction without the range check.
checked_sub_unchecked(t, d) == Ok(t - d)

\* SystemTime::checked_sub: None when the result is not representable.
checked_sub(t, d) == IF t - d < SystemTimeMin THEN Err("overflow") ELSE Ok(t - d)

\* ------------------------------------------------------------ file system

\* A node of a directory tree as compute_dir_size observes it: whether the
\* metadata of the entry can be read, whether it is a directory, its length,
\* and for a directory whether read_dir succeeds on it and what it lists.
File(n) == [is_dir |-> FALSE, len |-> n, meta_ok |-> TRUE, listable |-> FALSE, kids |-> <<>>]
BadFile(n) == [is_dir |-> FALSE, len |-> n, meta_ok |-> FALSE, listable |-> FALSE, kids |-> <<>>]
Dir(ks) == [is_dir |-> TRUE, len |-> 0, meta_ok |-> TRUE, listable |-> TRUE, kids |-> ks]
BadDir(ks) == [is_dir |-> TRUE, len |-> 0, meta_ok |-> TRUE, listable |-> FALSE, kids |-> ks]

\* compute_dir_size, the for loop over one directory listing: entries from
\* index i on; a directory is pushed on the stack, anything else is added.
RECURSIVE scan_entries(_, _, _, _)
scan_entries(kids, i, stack, total) ==
    IF i > Len(kids) THEN Ok([stack |-> stack, total |-> total])
    ELSE IF ~kids[i].meta_ok THEN Err("io")
    ELSE IF kids[i].is_dir
         THEN scan_entries(kids, i + 1, Append(stack, kids[i]), total)
         ELSE scan_entries(kids, i + 1, stack, saturating_add(total, kids[i].len))

\* The same loop with the push of nested directories forgotten.
RECURSIVE scan_entries_flat(_, _, _, _)
scan_entries_flat(kids, i, stack, total) ==
    IF i > Len(kids) THEN Ok([stack |-> stack, total |-> total])
    ELSE IF ~kids[i].meta_ok THEN Err("io")
    ELSE IF kids[i].is_dir
         THEN scan_entries_flat(kids, i + 1, stack, total)
         ELSE scan_entries_flat(kids, i + 1, stack, saturating_add(total, kids[i].len))

\* compute_dir_size, the while loop: pop the last path, list it, go on.
RECURSIVE walk_stack(_, _)
walk_stack(stack, total) ==
    IF stack = <<>> THEN Ok(total)
    ELSE LET path == stack[Len(stack)]
             rest == SubSeq(stack, 1, Len(stack) - 1)
         IN  IF ~path.listable THEN Err("io")
             ELSE LET r == scan_entries(path.kids, 1, rest, total)
                  IN  IF r.ok THEN walk_stack(r.val.stack, r.val.total) ELSE Err("io")

RECURSIVE walk_stack_flat(_, _)
walk_stack_flat(stack, total) ==
    IF stack = <<>> THEN Ok(total)
    ELSE LET path == stack[Len(stack)]
             rest == SubSeq(stack, 1, Len(stack) - 1)
         IN  IF ~path.listable THEN Err("io")
             ELSE LET r == scan_entries_flat(path.kids, 1, rest, total)
                  IN  IF r.ok THEN walk_stack_flat(r.val.stack, r.val.total) ELSE Err("io")

compute_dir_size_flat(root) == walk_stack_flat(<<root>>, 0)

compute_dir_size(root) == walk_stack(<<root>>, 0)

\* ------------------------------------------------------- workspace locator

\* The workspace as the program sees it: whether the directory exists and
\* its direct children, a function from names to [mtime, node].
Workspace(exists, kids) == [exists |-> exists, children |-> kids]

\* fs::create_dir_all without the creation.
create_dir_all_noop(fs) == fs

\* fs::create_dir_all(&temp_dir): an existing directory is left as it is, a
\* missing one is created empty.
create_dir_all(fs) == IF fs.exists THEN fs ELSE Workspace(TRUE, <<>>)

\* temporary_workspace_dir: app_data_dir()?, create_dir_all()?, Ok(temp_dir).
\* data_dir_ok and create_ok are the outcomes of the two fallible calls.
temporary_workspace_dir(fs, data_dir_ok, create_ok) ==
    IF ~data_dir_ok THEN [ok |-> FALSE, err |-> "data_dir", fs |-> fs]
    ELSE IF ~create_ok THEN [ok |-> FALSE, err |-> "create_dir", fs |-> fs]
    ELSE [ok |-> TRUE, err |-> "none", fs |-> create_dir_all(fs)]

\* ------------------------------------------------------- retention sweeper

\* metadata.modified().unwrap_or(SystemTime::UNIX_EPOCH)
modified_or_epoch(mtime) == IF mtime.ok THEN mtime.val ELSE UNIX_EPOCH

\* The test with every entry taken for stale.
is_recent_never(modified, cutoff) == FALSE

\* The test with the cutoff one second late.
is_recent_late(modified, cutoff) == modified > cutoff + 1

\* if modified > cutoff { continue; }
is_recent(modified, cutoff) == modified > cutoff

\* let size = if metadata.is_dir() { compute_dir_size or 0 } else { metadata.len() }
entry_size(node) ==
    IF node.is_dir
    THEN LET r == compute_dir_size(node) IN IF r.ok THEN r.val ELSE 0
    ELSE node.len

\* fs::remove_dir_all(&path) / fs::remove_file(&path), when it succeeds: the
\* child (with its subtree) is gone, the workspace and its siblings stay.
remove_path(fs, n) ==
    Workspace(fs.exists, [m \in DOMAIN fs.children \ {n} |-> fs.children[m]])

\* The counters with the size added by wrapping addition.
count_removal_wrapping(report, size) ==
    [cleaned_entries |-> report.cleaned_entries + 1,
     reclaimed_bytes |-> (report.reclaimed_bytes + size) % (U64Max + 1)]

\* report.cleaned_entries += 1; reclaimed_bytes = reclaimed_bytes.saturating_add(size)
count_removal(report, size) ==
    [cleaned_entries |-> report.cleaned_entries + 1,
     reclaimed_bytes |-> saturating_add(report.reclaimed_bytes, size)]

\* The iteration with a metadata failure falling through to the removal.
sweep_entry_unwrap(fs, report, n, cut, entry_ok, meta_ok, remove_ok) ==
    LET e == fs.children[n]
        same(f) == [fs |-> fs, report |-> report, fault |-> f]
    IN  IF ~entry_ok THEN same("entry")
        ELSE IF meta_ok /\ is_recent(modified_or_epoch(e.mtime), cut) THEN same("none")
        ELSE IF ~remove_ok THEN same(IF meta_ok THEN "remove" ELSE "meta")
        ELSE [fs |-> remove_path(fs, n),
              report |-> count_removal(report, entry_size(e.node)),
              fault |-> IF meta_ok THEN "none" ELSE "meta"]

\* One iteration of the for loop of cleanup_temporary_files on child n.
\* entry_ok, meta_ok and remove_ok are the outcomes of the directory-entry
\* read, of entry.metadata() and of the removal.  fault names the call that
\* failed ("none" when every call reached succeeded).
sweep_entry(fs, report, n, cut, entry_ok, meta_ok, remove_ok) ==
    LET e == fs.children[n]
        same(f) == [fs |-> fs, report |-> report, fault |-> f]
    IN  IF ~entry_ok THEN same("entry")
        ELSE IF ~meta_ok THEN same("meta")
        ELSE IF is_recent(modified_or_epoch(e.mtime), cut) THEN same("none")
        ELSE IF ~remove_ok THEN same("remove")
        ELSE [fs |-> remove_path(fs, n),
              report |-> count_removal(report, entry_size(e.node)),
              fault |-> "none"]

\* -------------------------------------------------------------- disk probe

\* Path::starts_with: component-wise prefix.
starts_with(path, base) ==
    /\ Len(base) <= Len(path)
    /\ SubSeq(path, 1, Len(base)) = base

\* Path::ancestors: the path itself, then each parent up to the root.
ancestors(path) == [i \in 1..(Len(path) + 1) |-> SubSeq(path, 1, Len(path) + 1 - i)]

\* disks.list().iter().find(|disk| ancestor.starts_with(disk.mount_point()))
RECURSIVE find_disk(_, _, _)
find_disk(disks, i, ancestor) ==
    IF i > Len(disks) THEN Err("none")
    ELSE IF starts_with(ancestor, disks[i].mount) THEN Ok(disks[i])
    ELSE find_disk(disks, i + 1, ancestor)

\* path.ancestors().find_map(...)
RECURSIVE find_map_ancestors(_, _, _)
find_map_ancestors(anc, i, disks) ==
    IF i > Len(anc) THEN Err("no disk found")
    ELSE LET r == find_disk(disks, 1, anc[i])
         IN  IF r.ok THEN r ELSE find_map_ancestors(anc, i + 1, disks)

\* available_disk_space: Ok(mount.available_space()) or the error.
available_disk_space(path, disks) ==
    LET r == find_map_ancestors(ancestors(path), 1, disks)
    IN  IF r.ok THEN Ok(r.val.avail) ELSE Err("no disk found")

\* ------------------------------------------------------------ orchestrator

\* The flag computed with a strict comparison.
low_space_strict(available_bytes) == available_bytes < MIN_DISK_SPACE_BYTES

\* let low_space = available_bytes <= MIN_DISK_SPACE_BYTES
low_space_of(available_bytes) == available_bytes <= MIN_DISK_SPACE_BYTES

\* HousekeepingStatus { available_bytes, threshold_bytes, low_space, temp_dir, cleanup }
HousekeepingStatus(available_bytes, temp_dir, cleanup) ==
    [available_bytes |-> available_bytes,
     threshold_bytes |-> MIN_DISK_SPACE_BYTES,
     low_space |-> low_space_of(available_bytes),
     temp_dir |-> temp_dir,
     cleanup |-> cleanup]

\* ------------------------------------------------------------- environment

SecondsPerHour == 3600

\* Clock readings of SystemTime::now(): a clock two retention windows after
\* the epoch, a clock reset to one hour after the epoch, and a clock one hour
\* above the least representable time.
NowNormal == UNIX_EPOCH + 2 * Retention
NowEarly == UNIX_EPOCH + SecondsPerHour
NowMin == SystemTimeMin + SecondsPerHour
NowValues == {NowNormal, NowEarly, NowMin}

\* Modification times: stale for every clock, exactly at the cutoff of the
\* normal clock, one second inside its retention window.
OldTime == SystemTimeMin + 2 * SecondsPerHour
BoundaryTime == NowNormal - Retention
NewTime == BoundaryTime + 1

\* Directory trees found in the workspace.
DirPages == Dir(<<File(1024), File(1024)>>)
DirNested == Dir(<<Dir(<<File(500), Dir(<<File(200)>>)>>), File(300)>>)
DirHuge == Dir(<<File(U64Max), Dir(<<File(1000)>>)>>)
DirUnlistable == Dir(<<File(700), BadDir(<<File(50)>>)>>)
DirBadMeta == Dir(<<BadFile(10), File(20)>>)

Entry(mtime, node) == [mtime |-> mtime, node |-> node]

\* The entries a workspace holds in the runs explored.
EntryCatalog ==
    { Entry(Modified(NewTime), File(500)),
      Entry(Modified(BoundaryTime), File(U64Max)),
      Entry(NoTime, File(40)),
      Entry(Modified(OldTime), DirPages),
      Entry(Modified(BoundaryTime), DirNested),
      Entry(Modified(OldTime), DirHuge),
      Entry(Modified(BoundaryTime), DirUnlistable),
      Entry(Modified(NewTime), DirBadMeta) }

Names == 1..MaxEntries

\* The path of the workspace, <data dir>/tmp, in components below the root.
TempDir == <<"home", "tmp">>

Disk(mount, avail) == [mount |-> mount, avail |-> avail]

\* Volume lists Disks::new_with_refreshed_list() reports to housekeeping.
DiskEnvs ==
    { <<>>,
      << Disk(<<"tmp">>, U64Max) >>,
      << Disk(<<>>, MIN_DISK_SPACE_BYTES - 1) >>,
      << Disk(<<>>, MIN_DISK_SPACE_BYTES) >>,
      << Disk(<<>>, MIN_DISK_SPACE_BYTES + 1) >>,
      << Disk(<<>>, U64Max), Disk(<<"home">>, MIN_DISK_SPACE_BYTES) >>,
      << Disk(<<"home">>, MIN_DISK_SPACE_BYTES), Disk(<<>>, U64Max) >> }

\* ------------------------------------------------------------------- state

VARIABLES
    wsExists,    \* the workspace directory exists
    children,    \* its direct children: name -> [mtime, node]
    pc,          \* position of the housekeeping call: idle, cleanup, loop, done
    now,         \* SystemTime::now() read by the sweep of this run
    cutoff,      \* now - retention
    pending,     \* children listed by read_dir and not yet visited
    report,      \* CleanupReport being accumulated
    result,      \* what housekeeping() returned
    snap,        \* the children as listed when the sweep began
    fault,       \* per listed child: the call that failed on it, if any
    topfault,    \* the fallible top-level call that failed in this run
    created,     \* this run created the workspace directory
    disks,       \* the volume list the disk probe saw in this run
    prev,        \* clock of the previous sweep when it ran without any fault
    probeIn,     \* disk probe runs: the [path, disks] given
    probeOut     \* disk probe runs: the result

vars == << wsExists, children, pc, now, cutoff, pending, report, result, snap,
           fault, topfault, created, disks, prev, probeIn, probeOut >>

runVars == << wsExists, children, pc, now, cutoff, pending, report, result, snap,
              fault, topfault, created, disks, prev >>

probeVars == << probeIn, probeOut >>

EmptyReport == [cleaned_entries |-> 0, reclaimed_bytes |-> 0]
NoResult == [kind |-> "none"]
NotProbed == [probed |-> FALSE, list |-> <<>>]
Failure(e) == [kind |-> "err", err |-> e]
Success(status) == [kind |-> "ok", status |-> status]

\* The workspaces the application can find at start: absent, or present with
\* any children of the catalog under some of the names.
InitChildren == UNION { [S -> EntryCatalog] : S \in SUBSET Names }

RunInit ==
    /\ wsExists \in BOOLEAN
    /\ children \in InitChildren
    /\ (~wsExists => children = <<>>)
    /\ pc = "idle"
    /\ now = NowNormal
    /\ cutoff = NowNormal
    /\ pending = {}
    /\ report = EmptyReport
    /\ result = NoResult
    /\ snap = <<>>
    /\ fault = <<>>
    /\ topfault = "none"
    /\ created = FALSE
    /\ disks = NotProbed
    /\ prev = NoTime

ProbeIdle ==
    /\ probeIn = [path |-> <<>>, disks |-> <<>>]
    /\ probeOut = NoResult

Init == RunInit /\ ProbeIdle

\* Which of the two fallible calls of the workspace locator the environment
\* made fail.
EnsureFault(data_dir_ok, create_ok) ==
    IF ~data_dir_ok THEN "data_dir" ELSE IF ~create_ok THEN "create_dir" ELSE "none"

\* housekeeping(), lines 312-320: temporary_workspace_dir() and its map_err.
Housekeeping_Start ==
    /\ pc = "idle"
    /\ \E data_dir_ok, create_ok \in BOOLEAN :
         LET r == temporary_workspace_dir(Workspace(wsExists, children), data_dir_ok, create_ok)
         IN  IF r.ok
             THEN /\ pc' = "cleanup"
                  /\ wsExists' = r.fs.exists
                  /\ children' = r.fs.children
                  /\ created' = ~wsExists
                  /\ UNCHANGED << result, topfault >>
             ELSE /\ pc' = "done"
                  /\ result' = Failure(r.err)
                  /\ topfault' = EnsureFault(data_dir_ok, create_ok)
                  /\ UNCHANGED << wsExists, children, created >>
    /\ UNCHANGED << now, cutoff, pending, report, snap, fault, disks, prev, probeVars >>

\* cleanup_temporary_files(), lines 227-234: the workspace again, the cutoff,
\* the default report and the listing of the workspace.
Cleanup_Begin ==
    /\ pc = "cleanup"
    /\ \E data_dir_ok, create_ok, list_ok \in BOOLEAN, t \in NowValues :
         LET r == temporary_workspace_dir(Workspace(wsExists, children), data_dir_ok, create_ok)
             c == checked_sub(t, Retention)
             abort(e) == /\ pc' = "done"
                         /\ result' = Failure(e)
                         /\ UNCHANGED << wsExists, children, pending, report, snap, fault >>
         IN  IF ~r.ok
             THEN abort(r.err) /\ topfault' = EnsureFault(data_dir_ok, create_ok)
                  /\ UNCHANGED << now, cutoff >>
             ELSE IF ~c.ok
             THEN abort("time_overflow") /\ now' = t /\ UNCHANGED << cutoff, topfault >>
             ELSE IF ~list_ok
             THEN abort("read_dir") /\ topfault' = "read_dir" /\ now' = t /\ cutoff' = c.val
             ELSE /\ pc' = "loop"
                  /\ wsExists' = r.fs.exists
                  /\ children' = r.fs.children
                  /\ now' = t
                  /\ cutoff' = c.val
                  /\ report' = EmptyReport
                  /\ pending' = DOMAIN r.fs.children
                  /\ snap' = r.fs.children
                  /\ fault' = [n \in DOMAIN r.fs.children |-> "pending"]
                  /\ UNCHANGED << result, topfault >>
    /\ UNCHANGED << created, disks, prev, probeVars >>

\* cleanup_temporary_files(), lines 234-284: one iteration of the for loop,
\* on any child still to visit (read_dir fixes no order).
Cleanup_Entry ==
    /\ pc = "loop"
    /\ \E n \in pending, entry_ok, meta_ok, remove_ok \in BOOLEAN :
         LET r == sweep_entry(Workspace(wsExists, children), report, n, cutoff,
                              entry_ok, meta_ok, remove_ok)
         IN  /\ wsExists' = r.fs.exists
             /\ children' = r.fs.children
             /\ report' = r.report
             /\ fault' = [fault EXCEPT ![n] = r.fault]
             /\ pending' = pending \ {n}
    /\ UNCHANGED << pc, now, cutoff, result, snap, topfault, created, disks, prev, probeVars >>

\* Lines 286 and 326-350: the sweep returns Ok(report); housekeeping probes
\* the disk of the workspace and assembles the status.
Housekeeping_Finish ==
    /\ pc = "loop"
    /\ pending = {}
    /\ \E ds \in DiskEnvs :
         LET a == available_disk_space(TempDir, ds)
         IN  /\ disks' = [probed |-> TRUE, list |-> ds]
             /\ result' = IF a.ok
                          THEN Success(HousekeepingStatus(a.val, TempDir, report))
                          ELSE Failure("no_volume")
    /\ pc' = "done"
    /\ UNCHANGED << wsExists, children, now, cutoff, pending, report, snap, fault,
                    topfault, created, prev, probeVars >>

\* housekeeping() has returned; the command can be invoked again (at startup
\* and on demand).  prev keeps the clock of a sweep that met no fault.
Housekeeping_Return ==
    /\ pc = "done"
    /\ pc' = "idle"
    /\ prev' = IF result.kind = "ok" /\ \A n \in DOMAIN fault : fault[n] = "none"
               THEN Modified(now) ELSE NoTime
    /\ now' = NowNormal
    /\ cutoff' = NowNormal
    /\ pending' = {}
    /\ report' = EmptyReport
    /\ result' = NoResult
    /\ snap' = <<>>
    /\ fault' = <<>>
    /\ topfault' = "none"
    /\ created' = FALSE
    /\ disks' = NotProbed
    /\ UNCHANGED << wsExists, children, probeVars >>

Next ==
    \/ Housekeeping_Start
    \/ Cleanup_Begin
    \/ Cleanup_Entry
    \/ Housekeeping_Finish
    \/ Housekeeping_Return

Spec == Init /\ [][Next]_vars

\* -------------------------------------------------------- disk probe runs

Components == {"home", "tmp"}

RECURSIVE PathsUpTo(_)
PathsUpTo(k) ==
    IF k = 0 THEN {<<>>}
    ELSE LET shorter == PathsUpTo(k - 1)
         IN  shorter \cup {Append(q, c) : q \in shorter, c \in Components}

ProbePaths == PathsUpTo(MaxPathLen)

\* Two volumes are told apart by the available bytes they report.
ProbeDisks == {Disk(m, a) : m \in ProbePaths, a \in {1, 2}}

RECURSIVE ListsUpTo(_)
ListsUpTo(k) ==
    IF k = 0 THEN {<<>>}
    ELSE LET shorter == ListsUpTo(k - 1)
         IN  shorter \cup {Append(l, d) : l \in shorter, d \in ProbeDisks}

ProbeInit ==
    /\ wsExists = FALSE
    /\ children = <<>>
    /\ pc = "idle"
    /\ now = NowNormal
    /\ cutoff = NowNormal
    /\ pending = {}
    /\ report = EmptyReport
    /\ result = NoResult
    /\ snap = <<>>
    /\ fault = <<>>
    /\ topfault = "none"
    /\ created = FALSE
    /\ disks = NotProbed
    /\ prev = NoTime
    /\ probeIn \in [path : ProbePaths, disks : ListsUpTo(MaxDisks)]
    /\ probeOut = NoResult

\* available_disk_space applied to the path and the volume list given.
Probe_Run ==
    /\ probeOut = NoResult
    /\ LET a == available_disk_space(probeIn.path, probeIn.disks)
       IN  probeOut' = IF a.ok THEN [kind |-> "ok", avail |-> a.val]
                       ELSE [kind |-> "err", avail |-> 0]
    /\ UNCHANGED << probeIn, runVars >>

ProbeNext == Probe_Run

SpecProbe == ProbeInit /\ [][ProbeNext]_vars

\* ------------------------------------------------------------------ claims

\* The children the sweep listed are known: it is in its loop, or it has
\* returned its report and the disk probe has run.
Listed == pc = "loop" \/ (pc = "done" /\ disks.probed)

\* The sweep has returned its report.
Swept == pc = "done" /\ disks.probed

\* The listed children that are gone.
Removed == DOMAIN snap \ DOMAIN children

\* A modification time at or before now - retention.
Stale(e) == e.mtime.ok /\ e.mtime.val <= now - Retention

\* A modification time strictly newer than now - retention.
Fresh(e) == e.mtime.ok /\ e.mtime.val > now - Retention

Clamp(x) == IF x > U64Max THEN U64Max ELSE x

\* Sum of the lengths of all entries that are not directories, at any depth.
RECURSIVE TreeBytes(_)
RECURSIVE KidsBytes(_, _)
TreeBytes(node) == IF node.is_dir THEN KidsBytes(node.kids, Len(node.kids)) ELSE node.len
KidsBytes(kids, k) == IF k = 0 THEN 0 ELSE KidsBytes(kids, k - 1) + TreeBytes(kids[k])

\* Every directory of the tree can be listed and every nested entry's
\* metadata read.
RECURSIVE TreeReadable(_)
TreeReadable(node) ==
    /\ node.listable
    /\ \A i \in DOMAIN node.kids :
         /\ node.kids[i].meta_ok
         /\ (node.kids[i].is_dir => TreeReadable(node.kids[i]))

\* The tree with every listing in the opposite order.
RECURSIVE Mirror(_)
Mirror(node) ==
    [node EXCEPT !.kids = [i \in DOMAIN node.kids |->
                              Mirror(node.kids[Len(node.kids) + 1 - i])]]

\* The size the sweep is to credit for an entry: a file's length, a
\* directory's nested bytes clamped at the u64 maximum, 0 when unmeasurable.
MeasuredSize(e) ==
    IF ~e.node.is_dir THEN e.node.len
    ELSE IF TreeReadable(e.node) THEN Clamp(TreeBytes(e.node)) ELSE 0

RECURSIVE SumMeasured(_)
SumMeasured(S) ==
    IF S = {} THEN 0
    ELSE LET n == CHOOSE m \in S : TRUE
         IN  MeasuredSize(snap[n]) + SumMeasured(S \ {n})

\* Some volume's mount point is the path or an ancestor of it.
Covers(list, path) ==
    \E i \in DOMAIN list :
        /\ Len(list[i].mount) <= Len(path)
        /\ \A k \in 1..Len(list[i].mount) : list[i].mount[k] = path[k]

\* now - retention is below the least representable SystemTime.
TimeOverflow == now - Retention < SystemTimeMin

C2_FreshSurvives ==
    Listed => \A n \in DOMAIN snap :
                 Fresh(snap[n]) => n \in DOMAIN children /\ children[n] = snap[n]

\* A sweep that kept a fresh child while another child failed and was kept
\* or was removed.
C2_Witness ==
    /\ Swept
    /\ \E n, m \in DOMAIN snap :
         /\ n # m
         /\ Fresh(snap[n])
         /\ n \in DOMAIN children
         /\ (fault[m] \in {"entry", "meta", "remove"} \/ m \in Removed)

\* C3: each step of the sweep removes at most one child; a removal adds 1 to
\* cleaned_entries and the child's measured size, saturating, to
\* reclaimed_bytes; a step that removes nothing leaves the report alone;
\* reclaimed_bytes never decreases; so the report is the count and the
\* saturating size sum of exactly the children removed.
C3_ReportCountsRemovals ==
    [][ /\ (pc = "loop" /\ pc' = "loop") =>
             LET gone == DOMAIN children \ DOMAIN children'
             IN  /\ Cardinality(gone) <= 1
                 /\ gone = {} => report' = report
                 /\ \A n \in gone :
                      /\ report'.cleaned_entries = report.cleaned_entries + 1
                      /\ report'.reclaimed_bytes
                           = Clamp(report.reclaimed_bytes + MeasuredSize(children[n]))
                 /\ report'.reclaimed_bytes >= report.reclaimed_bytes
        /\ Listed' =>
             /\ report'.cleaned_entries = Cardinality(Removed')
             /\ report'.reclaimed_bytes = Clamp(SumMeasured(Removed')) ]_vars

\* A sweep that removed a child, failed to remove another, and saturated.
C3_Witness ==
    /\ Swept
    /\ report.cleaned_entries = 1
    /\ report.reclaimed_bytes = U64Max
    /\ \E m \in DOMAIN snap : fault[m] = "remove"

\* The disk probe ran and found no volume for the workspace.
NoVolume == disks.probed /\ ~Covers(disks.list, TempDir)

\* C4 as stated: a finished run is an error exactly when the workspace could
\* not be ensured, the workspace could not be listed, or the probe found no
\* volume; in every other situation it is a status.
C4_ThreeErrorCases ==
    pc = "done" =>
        /\ result.kind \in {"ok", "err"}
        /\ result.kind = "err" <=>
             (topfault \in {"data_dir", "create_dir", "read_dir"} \/ NoVolume)

\* C4 amended: the error cases are those three and a fourth, the cutoff
\* now - retention not being representable as a SystemTime, which aborts the
\* sweep before it lists the workspace.
C4_FourErrorCases ==
    pc = "done" =>
        /\ result.kind \in {"ok", "err"}
        /\ result.kind = "err" <=>
             (topfault \in {"data_dir", "create_dir", "read_dir"} \/ NoVolume \/ TimeOverflow)
        /\ (result.kind = "err" /\ topfault = "none" /\ ~NoVolume) =>
             (result.err = "time_overflow" /\ ~disks.probed /\ report = EmptyReport)

\* A run that failed on the cutoff alone.
C4_Witness ==
    /\ pc = "done"
    /\ result.kind = "err"
    /\ topfault = "none"
    /\ TimeOverflow
    /\ DOMAIN children # {}

\* C5: once the workspace is listed the sweep visits every child and returns
\* its report; a child on which the entry read, the metadata read or the
\* removal failed is left in place and is not counted; every stale child on
\* which nothing failed is removed, and the count is that of the removals.
C5_EntryFailuresNonFatal ==
    /\ (pc = "done" /\ topfault = "none" /\ ~TimeOverflow) =>
          (disks.probed /\ \A n \in DOMAIN snap : fault[n] # "pending")
    /\ Listed =>
          /\ \A n \in DOMAIN snap :
               /\ fault[n] \in {"entry", "meta", "remove"} =>
                    (n \in DOMAIN children /\ children[n] = snap[n])
               /\ (fault[n] = "none" /\ Stale(snap[n])) => n \in Removed
          /\ report.cleaned_entries = Cardinality(Removed)
          /\ \A n \in Removed : fault[n] = "none"

\* A sweep in which one child failed and another was removed and counted,
\* and housekeeping returned a status.
C5_Witness ==
    /\ Swept
    /\ result.kind = "ok"
    /\ result.status.cleanup.cleaned_entries = 1
    /\ \E n \in DOMAIN snap : fault[n] = "meta" /\ Stale(snap[n])

\* The mount points of the list that are the path or an ancestor of it, and
\* the longest among them.
Matching(list, path) ==
    {i \in DOMAIN list :
        /\ Len(list[i].mount) <= Len(path)
        /\ \A k \in 1..Len(list[i].mount) : list[i].mount[k] = path[k]}
Longest(list, path) ==
    {i \in Matching(list, path) :
        \A j \in Matching(list, path) : Len(list[j].mount) <= Len(list[i].mount)}

\* C6: the probe returns the available bytes of a volume whose mount point
\* is the longest prefix of the path, and fails exactly when no mount point
\* is a prefix of the path.
C6_LongestPrefixVolume ==
    probeOut.kind # "none" =>
        /\ probeOut.kind = "err" <=> Matching(probeIn.disks, probeIn.path) = {}
        /\ probeOut.kind = "ok" =>
             \E i \in Longest(probeIn.disks, probeIn.path) :
                 probeOut.avail = probeIn.disks[i].avail

\* C7: a sweep over a workspace with no eligible child (none stale, none
\* with an unreadable time), and a sweep at the clock of the previous sweep
\* when that one met no fault, removes nothing and reports 0 and 0.
C7_NothingEligibleNothingRemoved ==
    (Listed /\ ((\A n \in DOMAIN snap : Fresh(snap[n])) \/ (prev.ok /\ prev.val = now))) =>
        /\ children = snap
        /\ report = EmptyReport

\* A second sweep at the same clock, over children the first one kept.
C7_Witness ==
    /\ Swept
    /\ prev.ok
    /\ prev.val = now
    /\ DOMAIN snap # {}
    /\ \A n \in DOMAIN snap : fault[n] = "none"
    /\ result.kind = "ok"
    /\ result.status.cleanup = EmptyReport

\* C8: the workspace directory exists from the moment it is ensured to the
\* end of a successful run, whatever the sweep removes.
C8_WorkspaceExists ==
    /\ pc \in {"cleanup", "loop"} => wsExists
    /\ (pc = "done" /\ result.kind = "ok") => wsExists

\* A successful run that found the workspace absent and created it.
C8_Witness ==
    /\ pc = "done"
    /\ result.kind = "ok"
    /\ created
    /\ wsExists

\* C9: a child on which no call failed is removed exactly when its
\* modification time is <= now - retention or cannot be read.
C9_EligibleIffStaleOrUnreadable ==
    Swept => \A n \in DOMAIN snap :
                fault[n] = "none" =>
                    (n \in Removed <=> (Stale(snap[n]) \/ ~snap[n].mtime.ok))

\* C10 as stated: a removed directory counts as one entry and adds the sum
\* of the sizes of all files nested in it, which compute_dir_size reaches.
C10_SubtreeSum ==
    Listed => \A n \in DOMAIN snap :
        (snap[n].node.is_dir /\ Removed = {n}) =>
            /\ report.cleaned_entries = 1
            /\ report.reclaimed_bytes = TreeBytes(snap[n].node)
            /\ compute_dir_size(snap[n].node).ok
            /\ compute_dir_size(snap[n].node).val = TreeBytes(snap[n].node)

\* C10 amended: compute_dir_size succeeds exactly on a subtree that can be
\* read throughout, and then gives the nested sum clamped at the u64
\* maximum, in either listing order; a removed directory counts as one
\* entry and adds that sum, or 0 when the subtree could not be measured.
C10_SubtreeSumWhenReadable ==
    Listed => \A n \in DOMAIN snap :
        snap[n].node.is_dir =>
            LET node == snap[n].node
                r == compute_dir_size(node)
                m == compute_dir_size(Mirror(node))
            IN  /\ r.ok = TreeReadable(node)
                /\ m.ok = r.ok
                /\ r.ok => (r.val = Clamp(TreeBytes(node)) /\ m.val = r.val)
                /\ Removed = {n} =>
                     /\ report.cleaned_entries = 1
                     /\ report.reclaimed_bytes
                          = IF TreeReadable(node) THEN Clamp(TreeBytes(node)) ELSE 0

\* A sweep whose only removal is a directory two levels deep.
C10_Witness ==
    /\ Swept
    /\ \E n \in DOMAIN snap :
         /\ Removed = {n}
         /\ snap[n].node = DirNested
         /\ report = [cleaned_entries |-> 1, reclaimed_bytes |-> 1000]

====
